---- MODULE Spec2Model ----
(***************************************************************************)
(* Two-phase commit coordinator of distribute-tx.                          *)
(*                                                                         *)
(* The model follows internal/coordinator/coordinator.go and               *)
(* internal/participant (Participant), with the two tables of              *)
(* internal/model/transaction.go as the transaction log store.             *)
(*                                                                         *)
(* Modelling decisions.                                                    *)
(*  - The coordinator database is reachable: a store call fails only on    *)
(*    the condition the code itself tests (RowsAffected == 0, record not   *)
(*    found).                                                              *)
(*  - A local transactional handle, the gorm.DB that db.Begin returns, is  *)
(*    an object of its own: p.LocalTx is a reference to it.  Committing or *)
(*    rolling back a handle that is already finished fails (database/sql   *)
(*    answers ErrTxDone); committing or rolling back an open handle may    *)
(*    fail, which is an input.                                             *)
(*  - A coordinator call is a start step, one goroutine per participant    *)
(*    (wg.Add / go func), and a finish step enabled once every goroutine   *)
(*    is done (wg.Wait).  Under Spec one caller issues the calls one after *)
(*    the other.                                                           *)
(*  - Participant objects are registered at most once each and carry       *)
(*    distinct names.                                                      *)
(***************************************************************************)
EXTENDS Integers, Sequences, FiniteSets, TLC

\* ---------------------------------------------------------------- bounds

\* Number of transaction ids Begin can hand out.
MaxTx == 2

\* Number of fan-out rounds (of Prepare, Commit or Rollback) the callers start.
MaxRounds == 4

\* Number of rounds after which two overlapping callers make no further call.
MaxConcurrentRounds == 2

\* Number of distinct instants time.Now() yields to recordFinishTime for one
\* transaction; later writes store the last instant again.
MaxFinishWrites == 2

MaxTerminationRounds == 3

XIDs == 1..MaxTx

\* The participant objects, named as two of the examples' are.
Names == {"order_service", "payment_service"}

\* The caller that drives the coordinator under Spec.
Caller == "c1"

Callers == {"c1", "c2"}

\* ------------------------------------------------------- statuses (model)

StatusCreated == "created"
StatusPreparing == "preparing"
StatusPrepared == "prepared"
StatusCommitted == "committed"
StatusRolledBack == "rolledback"
StatusFailed == "failed"

ParticipantRegistered == "registered"
ParticipantPrepared == "prepared"
ParticipantCommitted == "committed"
ParticipantRolledBack == "rolledback"
ParticipantFailed == "failed"

TerminalStatuses == {StatusCommitted, StatusRolledBack, StatusFailed}

\* OperationResult{Success, Err}; Err "nil" is the nil error.
OperationResult(success, err) == [Success |-> success, Err |-> err]

NoResult == OperationResult(FALSE, "pending")

\* Error values.
ErrNoAction == "no action defined for participant"
ErrAction == "action error"
ErrNoActiveTx == "no active local transaction"
ErrHandleCommit == "handle commit error"
ErrHandleRollback == "handle rollback error"
ErrRecordNotFound == "participant record not found"
ErrTxNotFound == "transaction not found"
ErrRecordNotFoundTx == "record not found"
ErrNotPrepared == "transaction not in prepared state"
ErrAlreadyCommitted == "cannot rollback an already committed transaction"

\* ------------------------------------------------------- SemiSync values

MaxPosition == 2
MaxAcks == 2
MaxWaits == 2

\* The binlog positions WaitForACK and RecordACK are called with.
Positions == 1..MaxPosition

\* SemiSyncConfig.MinSlaves, for a master that waits for two slaves.
MinSlaves == 2

\* SemiSyncConfig.TimeoutMs: the unit of the model's clock.
TimeoutMs == 1

MaxTime == 5

StatusOK == "OK"
StatusTimeout == "TIMEOUT"
StatusDegraded == "DEGRADED"
StatusRecovered == "RECOVERED"

ErrAckTimeout == "waiting for slave ACK timed out"

\* make(chan ACKResult, MinSlaves)
NewChan == [buf |-> 0, closed |-> FALSE]

\* The channel variable of a WaitForACK that is not running.
NoChan == [buf |-> 0, closed |-> FALSE]

NoAckReturn == [status |-> "none", err |-> "nil"]

\* ------------------------------------------------ Binlog and Master values

MaxEntries == 3
MaxRecords == 2

\* The goroutines that call Binlog.append.
Appenders == {"a1", "a2"}

\* Record.ID and Record.Content.
RecIDs == 1..MaxRecords
Contents == {"a", "b"}

OpInsert == "INSERT"
OpUpdate == "UPDATE"
OpDelete == "DELETE"
Operations == {OpInsert, OpUpdate, OpDelete}

ErrCreate == "failed to create record"
ErrUpdate == "failed to update record"
ErrDelete == "failed to delete record"
ErrNotFound == "record not found"

BinlogEntry(id, operation, recordID) ==
  [ID |-> id, Operation |-> operation, RecordID |-> recordID]

NoAppend == [op |-> "none", rec |-> 0]

NoWrite ==
  [kind |-> "none", id |-> 0, content |-> "absent", pos |-> 0, waitFrom |-> 0,
   timely |-> 0]

NoWriteReturn == [kind |-> "none", err |-> "nil"]

\* ------------------------------------------------------- Slave values

MaxLoops == 2

\* The syncLoop goroutines that can be alive at once in the model.
Loops == 1..MaxLoops

\* The goroutines that call StartSync (two HTTP requests to /api/sync/start).
Starters == {"s1", "s2"}

\* ------------------------------------------- read-write-splitting values

MaxSlaves == 3
MaxCalls == 5

MaxInt32 == 2147483647
MinInt32 == -2147483647 - 1

\* The length of a long run of DBPool.Slave calls: it brings a fresh counter
\* close to MaxInt32.
LongRun == MaxInt32 - 2

\* SQL statements, as the sequences of their characters.
Statements ==
  {<<"S", "E", "L", "E", "C", "T", " ", "1">>,
   <<"s", "e", "l", "e", "c", "t", " ", "1">>,
   <<" ", " ", "S", "e", "L", "e", "C", "t", " ", "1">>,
   <<"\t", "s", "e", "l", "e", "c", "t">>,
   <<"\n", " ", "S", "E", "L", "E", "C", "T", " ", "*">>,
   <<"S", "E", "L", "E", "C", "T", "E", "D">>,
   <<"S", "E", "L", "E", "C">>,
   <<>>,
   <<" ", " ">>,
   <<"U", "P", "D", "A", "T", "E", " ", "t">>,
   <<"I", "N", "S", "E", "R", "T">>,
   <<"D", "E", "L", "E", "T", "E">>,
   <<"(", "S", "E", "L", "E", "C", "T", " ", "1", ")">>,
   <<"x", "S", "E", "L", "E", "C", "T">>,
   <<"S", " ", "E", "L", "E", "C", "T">>,
   <<"S", "H", "O", "W">>,
   <<" ", "S", "E", "T", " ", "x">>,
   <<"S", "E", "L", "E", "C", "T">>}

SELECT == <<"S", "E", "L", "E", "C", "T">>

MasterConn == [kind |-> "master", index |-> 0]
SlaveConn(i) == [kind |-> "slave", index |-> i]

\* p.slaves[i] with i out of range: the call panics.
IndexPanic(i) == [kind |-> "panic", index |-> i]

NoConn == [kind |-> "none", index |-> 0]

NoCall == [op |-> "none", sql |-> <<>>]

\* DBProxy's write methods.
WriteMethods == {"Create", "Save", "Updates", "Delete", "Transaction"}

\* ------------------------------------------------------------------ state

VARIABLES
  Participants,   \* c.Participants: the participants the coordinator iterates over
  LocalTx,        \* p.LocalTx: NilTx, or the handle [xid, state] it refers to
  resource,       \* p's resource database: the xids whose prepared work is committed
  transactions,   \* table distributed_transactions: xid -> [Status, FinishTime];
                  \* FinishTime 0 is NULL, n > 0 the instant of the n-th write
  partRecs,       \* table transaction_participants: (xid, name) -> statuses of its rows
  call,           \* the coordinator call each caller has in progress
  ret,            \* what each caller's last call returned; NoReturn while it is in a call
  rounds,         \* the number of fan-out rounds started so far
  prepared,       \* the last completed Prepare round: its xid, the participants it
                  \* called, and those whose Register and Prepare both succeeded
  committed,      \* the xids for which a Commit has returned (true, nil)
  \* ha-switcher
  isMasterActive,   \* DBManager.isMasterActive
  simulateFailure,  \* DBManager.simulateFailure
  failCount,        \* HealthChecker.failCount
  switchCount,      \* Switcher.switchCount
  isRunning,        \* HealthChecker.isRunning
  hcMu,             \* HealthChecker.mu: "free", or the thread that holds it
  stopChan,         \* HealthChecker.stopChan: "open" or "closed"
  monPc,            \* where the monitorHealth goroutine is
  stopPc,           \* where the caller of Stop is
  recent,           \* the results of the last health checks since the last switch,
                    \* oldest first, at most FailThreshold of them
  lastCheck,        \* the result of the latest health check: "none" before the first
  \* master-slave-sync, SemiSync
  ssStatus,         \* SemiSync.status
  acks,             \* SemiSync.acks: position -> the number of records kept for it
  waitCh,           \* SemiSync.waitCh: position -> "none", "waiter" (the channel the
                    \* waiting WaitForACK reads) or "stale" (a channel nobody reads)
  ch,               \* WaitForACK's channel: values buffered, and whether it is closed
  received,         \* WaitForACK's counter
  wPc,              \* where the caller of WaitForACK is
  wPos,             \* the position it waits for
  ssRet,            \* what the last WaitForACK returned
  waits,            \* the number of WaitForACK calls so far
  recorded,         \* position -> the number of RecordACK calls made for it
  now,              \* the clock time.Now() reads, in units of TimeoutMs
  failureTime,      \* SemiSync.failureTime
  deadline,         \* when WaitForACK's timeout timer fires
  lastTimeoutAt,    \* when a WaitForACK last timed out
  \* master-slave-sync, Binlog and Master
  entries,          \* Binlog.entries
  binlogPos,        \* Binlog.position
  appPc,            \* where each caller of Binlog.append is
  appArg,           \* the operation and record id it appends
  appRet,           \* the position its last append returned; 0 before the first
  records,          \* the master's records table: id -> content, or "absent"
  nextID,           \* the id the table gives the next created record
  totalWrites,      \* Master.totalWrites
  mPc,              \* where the caller of the Master's write methods is
  mOp,              \* the write in progress
  mRet,             \* what the last write returned
  \* read-write-splitting
  rwPc,             \* "unbuilt" before NewDBPool, then "ready"
  slaveCount,       \* DBPool.slaveCount
  current,          \* DBPool.current, an int32
  rwCall,           \* the last call on the proxy, router or pool
  rwConn,           \* the connection it used
  rwCalls,          \* the number of calls so far
  \* master-slave-sync, Slave
  syncRunning,      \* Slave.isRunning
  loopPc,           \* where each syncLoop goroutine is; "none" when there is none
  startPc,          \* where each caller of StartSync is
  syncMutex,        \* the loop that holds Slave.syncMutex in syncOnce, or 0
  currentPosition,  \* Slave.currentPosition
  batch,            \* the entries syncOnce fetched and has not applied yet
  applied,          \* the IDs of the entries applied to the slave's table, in order
  ackSent           \* the positions the slave has acknowledged to the master

coordVars == <<Participants, LocalTx, resource, transactions, partRecs, call, ret,
               rounds, prepared, committed>>

haVars == <<isMasterActive, simulateFailure, failCount, switchCount, isRunning,
            hcMu, stopChan, monPc, stopPc, recent, lastCheck>>

ssVars == <<ssStatus, acks, waitCh, ch, received, wPc, wPos, ssRet, waits, recorded,
            now, failureTime, deadline, lastTimeoutAt>>

msVars == <<entries, binlogPos, appPc, appArg, appRet, records, nextID, totalWrites,
            mPc, mOp, mRet>>

rwVars == <<rwPc, slaveCount, current, rwCall, rwConn, rwCalls>>

slVars == <<syncRunning, loopPc, startPc, syncMutex, currentPosition, batch, applied,
            ackSent>>

\* The state of the programs other than the two-phase-commit coordinator.
otherVars == <<haVars, ssVars, msVars, rwVars, slVars>>

\* The state of the programs other than the ha-switcher.
notHA == <<coordVars, ssVars, msVars, rwVars, slVars>>

\* The state of the programs other than the SemiSync manager.
notSS == <<coordVars, haVars, msVars, rwVars, slVars>>

\* The state of the programs other than the Binlog and the Master.
notMS == <<coordVars, haVars, rwVars, slVars>>

\* The state of the programs other than the read-write-splitting proxy.
notRW == <<coordVars, haVars, ssVars, msVars, slVars>>

\* The state of the programs other than the Slave and the master's binlog.
notSL == <<coordVars, haVars, ssVars, rwVars>>

vars == <<coordVars, otherVars>>

IdleCall ==
  [op |-> "idle", xid |-> 0, pc |-> [p \in Names |-> "none"],
   res |-> [p \in Names |-> NoResult]]

NoReturn == [op |-> "none", xid |-> 0, ok |-> FALSE, err |-> "nil"]

Return(op, x, ok, err) == [op |-> op, xid |-> x, ok |-> ok, err |-> err]

\* A nil LocalTx.
NilTx == [xid |-> 0, state |-> "nil"]

\* The handle db.Begin() returns for the action of transaction x.
NewTx(x) == [xid |-> x, state |-> "open"]

\* NewSlave: position 0, not running.
InitSL ==
  /\ syncRunning = FALSE
  /\ loopPc = [l \in Loops |-> "none"]
  /\ startPc = [c \in Starters |-> "idle"]
  /\ syncMutex = 0
  /\ currentPosition = 0
  /\ batch = <<>>
  /\ applied = <<>>
  /\ ackSent = {}

\* The read-write-splitting proxy before NewDBProxy.
InitRW ==
  /\ rwPc = "unbuilt"
  /\ slaveCount = 0
  /\ current = 0
  /\ rwCall = NoCall
  /\ rwConn = NoConn
  /\ rwCalls = 0

\* NewBinlog and NewMaster, against an empty records table.
InitMS ==
  /\ entries = <<>>
  /\ binlogPos = 0
  /\ appPc = [a \in Appenders |-> "idle"]
  /\ appArg = [a \in Appenders |-> NoAppend]
  /\ appRet = [a \in Appenders |-> 0]
  /\ records = [id \in RecIDs |-> "absent"]
  /\ nextID = 1
  /\ totalWrites = 0
  /\ mPc = "idle"
  /\ mOp = NoWrite
  /\ mRet = NoWriteReturn

\* NewSemiSync; no WaitForACK has been called.
InitSS ==
  /\ ssStatus = StatusOK
  /\ acks = [p \in Positions |-> 0]
  /\ waitCh = [p \in Positions |-> "none"]
  /\ ch = NoChan
  /\ received = 0
  /\ wPc = "idle"
  /\ wPos = 0
  /\ ssRet = NoAckReturn
  /\ waits = 0
  /\ recorded = [p \in Positions |-> 0]
  /\ now = 0
  /\ failureTime = 0
  /\ deadline = 0
  /\ lastTimeoutAt = 0

\* NewDBManager, NewSwitcher and NewHealthChecker, as cmd/main.go builds them.
InitHA ==
  /\ isMasterActive = TRUE
  /\ simulateFailure = FALSE
  /\ failCount = 0
  /\ switchCount = 0
  /\ isRunning = FALSE
  /\ hcMu = "free"
  /\ stopChan = "open"
  /\ monPc = "none"
  /\ stopPc = "idle"
  /\ recent = <<>>
  /\ lastCheck = "none"

\* NewCoordinator and NewParticipant, against freshly migrated tables; the
\* other programs of the repository in the state their constructors leave.
Init ==
  /\ Participants = {}
  /\ LocalTx = [p \in Names |-> NilTx]
  /\ resource = [p \in Names |-> {}]
  /\ transactions = <<>>
  /\ partRecs = [k \in XIDs \X Names |-> <<>>]
  /\ call = [c \in Callers |-> IdleCall]
  /\ ret = [c \in Callers |-> NoReturn]
  /\ rounds = 0
  /\ prepared = [xid |-> 0, round |-> {}, ok |-> {}]
  /\ committed = {}
  /\ InitHA
  /\ InitSS
  /\ InitMS
  /\ InitRW
  /\ InitSL

\* ------------------------------------------------------------ the store

Exists(x) == x \in DOMAIN transactions

\* UPDATE distributed_transactions SET status = ? WHERE xid = ?
SetStatus(txs, x, status) == [txs EXCEPT ![x].Status = status]

\* Variant of SetFinishTime: the finish time is not stored.
SetFinishTimeSkipped(txs, x) == txs

\* UPDATE distributed_transactions SET finish_time = now WHERE xid = ?
SetFinishTime(txs, x) ==
  [txs EXCEPT ![x].FinishTime = IF @ < MaxFinishWrites THEN @ + 1 ELSE @]

\* RowsAffected > 0 of the UPDATE in UpdateParticipantStatus.
HasRecord(recs, x, p) == Len(recs[<<x, p>>]) > 0

\* Variant of UpdateParticipantStatus: the rows keep their status.
UpdateParticipantStatusSkipped(recs, x, p, status) == recs

\* UPDATE transaction_participants SET status = ? WHERE xid = ? AND name = ?
UpdateParticipantStatus(recs, x, p, status) ==
  [recs EXCEPT ![<<x, p>>] = [i \in DOMAIN @ |-> status]]

\* INSERT of Register: the table has no unique key on (xid, name).
CreateParticipant(recs, x, p) ==
  [recs EXCEPT ![<<x, p>>] = Append(@, ParticipantRegistered)]

\* --------------------------------------------------------- local handles

\* tx.Commit() and tx.Rollback() succeed only on a handle that is still open.
HandleOpen(p) == LocalTx[p].state = "open"

SetHandleState(p, st) == [LocalTx EXCEPT ![p].state = st]

\* ------------------------------------------------------ coordinator calls

Idle(c) == call[c].op = "idle"

AllIdle == \A c \in Callers : Idle(c)

\* The participants the call's loop over c.Participants started a goroutine for.
Round(c) == {p \in Names : call[c].pc[p] # "none"}

\* Variant of AllDone: the wait ends with the first goroutine that is done.
AnyDone(c) == Round(c) = {} \/ \E p \in Round(c) : call[c].pc[p] = "done"

\* wg.Wait() returns.
AllDone(c) == \A p \in Round(c) : call[c].pc[p] = "done"

\* Variant of Finish: a failing result ends the goroutines still to run.
FinishAborts(c, p, result) ==
  [call EXCEPT ![c].pc = [q \in Names |->
                            IF q = p \/ (~result.Success /\ @[q] = "go")
                              THEN "done" ELSE @[q]],
               ![c].res[p] = result]

\* wg.Add(1) and go func(p) for every p of c.Participants.
StartRound(c, op, x) ==
  /\ rounds < MaxRounds
  /\ rounds' = rounds + 1
  /\ ret' = [ret EXCEPT ![c] = NoReturn]
  /\ call' = [call EXCEPT ![c] =
       [op |-> op, xid |-> x,
        pc |-> [p \in Names |-> IF p \in Participants THEN "go" ELSE "none"],
        res |-> [p \in Names |-> NoResult]]]

\* Variant of Finish: a goroutine that stores a failure returns without wg.Done().
FinishLeaksOnFailure(c, p, result) ==
  [call EXCEPT ![c].pc[p] = IF result.Success THEN "done" ELSE "exited",
               ![c].res[p] = result]

Finish(c, p, result) ==
  [call EXCEPT ![c].pc[p] = "done", ![c].res[p] = result]

\* Variant of the loop below: one successful result is enough.
AnySucceeded(c) == Round(c) = {} \/ \E p \in Round(c) : call[c].res[p].Success

\* The loop over the results map: no result is a failure.
AllSucceeded(c) == \A p \in Round(c) : call[c].res[p].Success

\* Variant of FirstErrors: the error of whichever result the iteration meets first.
AnyErrors(c) == {call[c].res[p].Err : p \in Round(c)}

\* firstError: the error of whichever failing result the map iteration meets first.
FirstErrors(c) == {call[c].res[p].Err : p \in {q \in Round(c) : ~call[c].res[q].Success}}

\* The status Prepare writes after the round.
PrepareStatus(allPrepared) == IF allPrepared THEN StatusPrepared ELSE StatusFailed

\* The status Commit writes after the round.
CommitStatus(allCommitted) == IF allCommitted THEN StatusCommitted ELSE StatusFailed

\* Variants of CommitAllowed: Commit also accepts a failed transaction; Commit
\* accepts every status.
CommitAllowedLax(status) == status \in {StatusPrepared, StatusFailed}

CommitAlwaysAllowed(status) == TRUE

\* Commit's check of the status it read.
CommitAllowed(status) == status = StatusPrepared

\* Variant of RollbackAllowed: Rollback accepts every status.
RollbackAlwaysAllowed(status) == TRUE

\* Rollback's check of the status it read.
RollbackAllowed(status) == status # StatusCommitted

\* ------------------------------------------------------------ operations

RegisterParticipant(p) ==
  /\ p \notin Participants
  /\ Participants' = Participants \cup {p}
  /\ UNCHANGED <<LocalTx, resource, transactions, partRecs, call, ret, rounds, prepared,
                 committed, otherVars>>

Begin(c) ==
  /\ Idle(c)
  /\ Len(transactions) < MaxTx
  /\ transactions' = Append(transactions, [Status |-> StatusCreated, FinishTime |-> 0])
  /\ ret' = [ret EXCEPT ![c] = Return("begin", Len(transactions) + 1, TRUE, "nil")]
  /\ UNCHANGED <<Participants, LocalTx, resource, partRecs, call, rounds, prepared,
                 committed, otherVars>>

\* Variant of PrepareStart: the result of the status update is not looked at.
PrepareStartUnchecked(c, x) ==
  /\ Idle(c)
  /\ transactions' = IF x \in DOMAIN transactions
                        THEN SetStatus(transactions, x, StatusPreparing)
                        ELSE transactions
  /\ StartRound(c, "prepare", x)
  /\ UNCHANGED <<Participants, LocalTx, resource, partRecs, prepared, committed, otherVars>>

\* Prepare up to the loop that starts the goroutines.
PrepareStart(c, x) ==
  /\ Idle(c)
  /\ IF ~Exists(x)
       THEN /\ ret' = [ret EXCEPT ![c] = Return("prepare", x, FALSE, ErrTxNotFound)]
            /\ UNCHANGED <<transactions, call, rounds>>
       ELSE /\ transactions' = SetStatus(transactions, x, StatusPreparing)
            /\ StartRound(c, "prepare", x)
  /\ UNCHANGED <<Participants, LocalTx, resource, partRecs, prepared, committed, otherVars>>

\* Participant.Register: INSERT the participant's row.
ParticipantRegister(c, p) ==
  partRecs' = CreateParticipant(partRecs, call[c].xid, p)

\* Variant of ParticipantPrepare: the handle is left open when the action fails.
ParticipantPrepareKeepsOpen(c, p, actionOK) ==
  /\ LocalTx' = [LocalTx EXCEPT ![p] = NewTx(call[c].xid)]
  /\ call' = Finish(c, p, IF actionOK THEN OperationResult(TRUE, "nil")
                                      ELSE OperationResult(FALSE, ErrAction))

\* Participant.Prepare: begin a local transaction, keep it in LocalTx, run the action.
ParticipantPrepare(c, p, actionOK) ==
  /\ LocalTx' = [LocalTx EXCEPT ![p] =
        IF actionOK THEN NewTx(call[c].xid)
                    ELSE [NewTx(call[c].xid) EXCEPT !.state = "rolledback"]]
  /\ call' = Finish(c, p, IF actionOK THEN OperationResult(TRUE, "nil")
                                      ELSE OperationResult(FALSE, ErrAction))

\* The goroutine of Prepare: p.Register, the lookup of p's action, p.Prepare.
\* Whether participantActions holds an action under p's name is an input of
\* the call; it is read here and nowhere else, so it is drawn here.
PrepGo(c, p) ==
  /\ call[c].op = "prepare"
  /\ call[c].pc[p] = "go"
  /\ ParticipantRegister(c, p)
  /\ \E exists \in BOOLEAN :
       IF exists
         THEN \E actionOK \in BOOLEAN : ParticipantPrepare(c, p, actionOK)
         ELSE /\ call' = Finish(c, p, OperationResult(FALSE, ErrNoAction))
              /\ UNCHANGED LocalTx
  /\ UNCHANGED <<Participants, resource, transactions, ret, rounds, prepared, committed,
                 otherVars>>

\* Prepare after wg.Wait().
PrepareFinish(c) ==
  LET x == call[c].xid IN
  /\ call[c].op = "prepare"
  /\ AllDone(c)
  /\ transactions' = SetStatus(transactions, x, PrepareStatus(AllSucceeded(c)))
  /\ IF AllSucceeded(c)
       THEN ret' = [ret EXCEPT ![c] = Return("prepare", x, TRUE, "nil")]
       ELSE \E e \in FirstErrors(c) :
                 ret' = [ret EXCEPT ![c] = Return("prepare", x, FALSE, e)]
  /\ prepared' = [xid |-> x, round |-> Round(c),
                  ok |-> {p \in Round(c) : call[c].res[p].Success}]
  /\ call' = [call EXCEPT ![c] = IdleCall]
  /\ UNCHANGED <<Participants, LocalTx, resource, partRecs, rounds, committed, otherVars>>

\* Commit up to the loop that starts the goroutines.
CommitStart(c, x) ==
  /\ Idle(c)
  /\ IF ~Exists(x)
       THEN /\ ret' = [ret EXCEPT ![c] = Return("commit", x, FALSE, ErrRecordNotFoundTx)]
            /\ UNCHANGED <<call, rounds>>
       ELSE IF ~CommitAllowed(transactions[x].Status)
       THEN /\ ret' = [ret EXCEPT ![c] = Return("commit", x, FALSE, ErrNotPrepared)]
            /\ UNCHANGED <<call, rounds>>
       ELSE /\ StartRound(c, "commit", x)
  /\ UNCHANGED <<Participants, LocalTx, resource, transactions, partRecs, prepared,
                 committed, otherVars>>

\* Participant.Commit.
ParticipantCommit(c, p, handleOK) ==
  LET x == call[c].xid IN
  IF LocalTx[p] = NilTx
    THEN /\ call' = Finish(c, p, OperationResult(FALSE, ErrNoActiveTx))
         /\ UNCHANGED <<LocalTx, resource, partRecs>>
    ELSE IF ~(HandleOpen(p) /\ handleOK)
    THEN /\ LocalTx' = IF HandleOpen(p) THEN SetHandleState(p, "broken") ELSE LocalTx
         /\ partRecs' = UpdateParticipantStatus(partRecs, x, p, ParticipantFailed)
         /\ call' = Finish(c, p, OperationResult(FALSE, ErrHandleCommit))
         /\ UNCHANGED resource
    ELSE /\ partRecs' = UpdateParticipantStatus(partRecs, x, p, ParticipantCommitted)
         /\ resource' = [resource EXCEPT ![p] = @ \cup {LocalTx[p].xid}]
         /\ IF HasRecord(partRecs, x, p)
              THEN /\ LocalTx' = [LocalTx EXCEPT ![p] = NilTx]
                   /\ call' = Finish(c, p, OperationResult(TRUE, "nil"))
              ELSE /\ LocalTx' = SetHandleState(p, "committed")
                   /\ call' = Finish(c, p, OperationResult(FALSE, ErrRecordNotFound))

\* The goroutine of Commit.
CommitGo(c, p) ==
  /\ call[c].op = "commit"
  /\ call[c].pc[p] = "go"
  /\ \E handleOK \in BOOLEAN : ParticipantCommit(c, p, handleOK)
  /\ UNCHANGED <<Participants, transactions, ret, rounds, prepared, committed, otherVars>>

\* Commit after wg.Wait().
CommitFinish(c) ==
  LET x == call[c].xid IN
  /\ call[c].op = "commit"
  /\ AllDone(c)
  /\ IF AllSucceeded(c)
       THEN /\ transactions' =
                 SetFinishTime(SetStatus(transactions, x, CommitStatus(TRUE)), x)
            /\ ret' = [ret EXCEPT ![c] = Return("commit", x, TRUE, "nil")]
       ELSE /\ transactions' = SetStatus(transactions, x, CommitStatus(FALSE))
            /\ \E e \in FirstErrors(c) :
                 ret' = [ret EXCEPT ![c] = Return("commit", x, FALSE, e)]
  /\ committed' = IF AllSucceeded(c) THEN committed \cup {x} ELSE committed
  /\ call' = [call EXCEPT ![c] = IdleCall]
  /\ UNCHANGED <<Participants, LocalTx, resource, partRecs, rounds, prepared, otherVars>>

\* Rollback up to the loop that starts the goroutines.
RollbackStart(c, x) ==
  /\ Idle(c)
  /\ IF ~Exists(x)
       THEN /\ ret' = [ret EXCEPT ![c] = Return("rollback", x, FALSE, ErrRecordNotFoundTx)]
            /\ UNCHANGED <<call, rounds>>
       ELSE IF ~RollbackAllowed(transactions[x].Status)
       THEN /\ ret' = [ret EXCEPT ![c] = Return("rollback", x, FALSE, ErrAlreadyCommitted)]
            /\ UNCHANGED <<call, rounds>>
       ELSE /\ StartRound(c, "rollback", x)
  /\ UNCHANGED <<Participants, LocalTx, resource, transactions, partRecs, prepared,
                 committed, otherVars>>

\* Variant of ParticipantRollback: the handle is committed instead.
ParticipantRollbackCommits(c, p, handleOK) == ParticipantCommit(c, p, handleOK)

\* Participant.Rollback.
ParticipantRollback(c, p, handleOK) ==
  LET x == call[c].xid IN
  IF LocalTx[p] = NilTx
    THEN /\ call' = Finish(c, p, OperationResult(FALSE, ErrNoActiveTx))
         /\ UNCHANGED <<LocalTx, resource, partRecs>>
    ELSE IF ~(HandleOpen(p) /\ handleOK)
    THEN /\ LocalTx' = IF HandleOpen(p) THEN SetHandleState(p, "broken") ELSE LocalTx
         /\ partRecs' = UpdateParticipantStatus(partRecs, x, p, ParticipantFailed)
         /\ call' = Finish(c, p, OperationResult(FALSE, ErrHandleRollback))
         /\ UNCHANGED resource
    ELSE /\ partRecs' = UpdateParticipantStatus(partRecs, x, p, ParticipantRolledBack)
         /\ UNCHANGED resource
         /\ IF HasRecord(partRecs, x, p)
              THEN /\ LocalTx' = [LocalTx EXCEPT ![p] = NilTx]
                   /\ call' = Finish(c, p, OperationResult(TRUE, "nil"))
              ELSE /\ LocalTx' = SetHandleState(p, "rolledback")
                   /\ call' = Finish(c, p, OperationResult(FALSE, ErrRecordNotFound))

\* The goroutine of Rollback.
RollbackGo(c, p) ==
  /\ call[c].op = "rollback"
  /\ call[c].pc[p] = "go"
  /\ \E handleOK \in BOOLEAN : ParticipantRollback(c, p, handleOK)
  /\ UNCHANGED <<Participants, transactions, ret, rounds, prepared, committed, otherVars>>

\* Variant of RollbackFinish: a participant's failure fails the Rollback.
RollbackFinishStrict(c) ==
  LET x == call[c].xid IN
  /\ call[c].op = "rollback"
  /\ AllDone(c)
  /\ IF AllSucceeded(c)
       THEN /\ transactions' = SetFinishTime(SetStatus(transactions, x, StatusRolledBack), x)
            /\ ret' = [ret EXCEPT ![c] = Return("rollback", x, TRUE, "nil")]
       ELSE /\ transactions' = SetStatus(transactions, x, StatusFailed)
            /\ \E e \in FirstErrors(c) :
                 ret' = [ret EXCEPT ![c] = Return("rollback", x, FALSE, e)]
  /\ call' = [call EXCEPT ![c] = IdleCall]
  /\ UNCHANGED <<Participants, LocalTx, resource, partRecs, rounds, prepared, committed,
                 otherVars>>

\* Rollback after wg.Wait().
RollbackFinish(c) ==
  LET x == call[c].xid IN
  /\ call[c].op = "rollback"
  /\ AllDone(c)
  /\ transactions' = SetFinishTime(SetStatus(transactions, x, StatusRolledBack), x)
  /\ ret' = [ret EXCEPT ![c] = Return("rollback", x, TRUE, "nil")]
  /\ call' = [call EXCEPT ![c] = IdleCall]
  /\ UNCHANGED <<Participants, LocalTx, resource, partRecs, rounds, prepared, committed,
                 otherVars>>

\* commitFailureScenario: after a successful Prepare and before Commit, the
\* participant's reference to its open handle is cleared (LocalTx = nil).
InvalidateHandle(p) ==
  /\ HandleOpen(p)
  /\ LocalTx' = [LocalTx EXCEPT ![p] = NilTx]
  /\ UNCHANGED <<Participants, resource, transactions, partRecs, call, ret, rounds,
                 prepared, committed, otherVars>>

\* The xids a call is made with: those Begin has returned, and one it has not.
CallXids == {x \in XIDs : x <= Len(transactions) + 1}

\* One caller, one call at a time.
Next ==
  \/ \E p \in Names : AllIdle /\ RegisterParticipant(p)
  \/ Begin(Caller)
  \/ \E x \in CallXids : PrepareStart(Caller, x)
  \/ \E p \in Names : PrepGo(Caller, p)
  \/ PrepareFinish(Caller)
  \/ \E x \in CallXids : CommitStart(Caller, x)
  \/ \E p \in Names : CommitGo(Caller, p)
  \/ CommitFinish(Caller)
  \/ \E x \in CallXids : RollbackStart(Caller, x)
  \/ \E p \in Names : RollbackGo(Caller, p)
  \/ RollbackFinish(Caller)
  \/ \E p \in Names : AllIdle /\ InvalidateHandle(p)

Spec == Init /\ [][Next]_vars

\* The Go scheduler runs every goroutine that can take a step, and every
\* participant call and store call returns: each goroutine of a round and the
\* code after wg.Wait() is taken if it stays enabled.
Scheduling ==
  /\ \A p \in Names : WF_vars(PrepGo(Caller, p))
  /\ \A p \in Names : WF_vars(CommitGo(Caller, p))
  /\ \A p \in Names : WF_vars(RollbackGo(Caller, p))
  /\ WF_vars(PrepareFinish(Caller))
  /\ WF_vars(CommitFinish(Caller))
  /\ WF_vars(RollbackFinish(Caller))

\* One caller, one call at a time, a few rounds.
NextTermination ==
  \/ \E p \in Names : AllIdle /\ RegisterParticipant(p)
  \/ Begin(Caller)
  \/ \E x \in CallXids : rounds < MaxTerminationRounds /\ PrepareStart(Caller, x)
  \/ \E p \in Names : PrepGo(Caller, p)
  \/ PrepareFinish(Caller)
  \/ \E x \in CallXids : rounds < MaxTerminationRounds /\ CommitStart(Caller, x)
  \/ \E p \in Names : CommitGo(Caller, p)
  \/ CommitFinish(Caller)
  \/ \E x \in CallXids : rounds < MaxTerminationRounds /\ RollbackStart(Caller, x)
  \/ \E p \in Names : RollbackGo(Caller, p)
  \/ RollbackFinish(Caller)
  \/ \E p \in Names : AllIdle /\ InvalidateHandle(p)

SpecTermination == Init /\ [][NextTermination]_vars /\ Scheduling

\* Two callers, each in its own goroutine: Prepare, Commit and Rollback take no
\* lock, so their calls overlap, and RegisterParticipant, which locks c.mutex
\* alone, runs at any time.
NextConcurrent ==
  \/ \E p \in Names : RegisterParticipant(p)
  \/ \E c \in Callers : Begin(c)
  \/ \E c \in Callers : \E x \in CallXids :
       rounds < MaxConcurrentRounds /\ PrepareStart(c, x)
  \/ \E c \in Callers : \E p \in Names : PrepGo(c, p)
  \/ \E c \in Callers : PrepareFinish(c)
  \/ \E c \in Callers : \E x \in CallXids :
       rounds < MaxConcurrentRounds /\ CommitStart(c, x)
  \/ \E c \in Callers : \E p \in Names : CommitGo(c, p)
  \/ \E c \in Callers : CommitFinish(c)
  \/ \E c \in Callers : \E x \in CallXids :
       rounds < MaxConcurrentRounds /\ RollbackStart(c, x)
  \/ \E c \in Callers : \E p \in Names : RollbackGo(c, p)
  \/ \E c \in Callers : RollbackFinish(c)
  \/ \E p \in Names : InvalidateHandle(p)

SpecConcurrent == Init /\ [][NextConcurrent]_vars

\* ----------------------------------------------------------- ha-switcher

\* Config.FailThreshold as DefaultConfig sets it.
FailThreshold == 3

MaxSwitches == 2

\* DBManager.GetDB: the connection a call returns in the current state.
GetDB == IF isMasterActive THEN "masterDB" ELSE "slaveDB"

\* DBManager.SwitchToSlave: the new value of isMasterActive.
DBSwitchToggles(active) == ~active

DBSwitchToSlave(active) == IF active THEN FALSE ELSE active

\* DBManager.CheckMasterHealth: false under simulateFailure, else what the
\* SELECT 1 against the master says.
CheckMasterHealth(pingOK) == IF simulateFailure THEN FALSE ELSE pingOK

\* checkHealth's test for switching, on the count after this failure.
ThresholdReachedLate(count) == count > FailThreshold

ThresholdReached(count) == count >= FailThreshold

\* The check results the history keeps: the last FailThreshold since the last switch.
Remember(h, healthy) ==
  LET all == Append(h, healthy)
  IN  IF Len(all) > FailThreshold THEN Tail(all) ELSE all

\* DBManager.SetSimulateFailure, called by the API server.
SetSimulateFailure(b) ==
  /\ simulateFailure # b
  /\ simulateFailure' = b
  /\ UNCHANGED <<isMasterActive, failCount, switchCount, isRunning, hcMu, stopChan,
                 monPc, stopPc, recent, lastCheck, notHA>>

\* HealthChecker.Start: under mu, start the monitorHealth goroutine once.
Start ==
  /\ monPc = "none"
  /\ hcMu = "free"
  /\ ~isRunning
  /\ isRunning' = TRUE
  /\ monPc' = "select"
  /\ UNCHANGED <<isMasterActive, simulateFailure, failCount, switchCount, hcMu,
                 stopChan, stopPc, recent, lastCheck, notHA>>

\* monitorHealth's select takes the stopChan case: the goroutine returns and
\* its deferred wg.Done runs.
MonitorStop ==
  /\ monPc = "select"
  /\ stopChan = "closed"
  /\ monPc' = "done"
  /\ UNCHANGED <<isMasterActive, simulateFailure, failCount, switchCount, isRunning,
                 hcMu, stopChan, stopPc, recent, lastCheck, notHA>>

\* monitorHealth's select takes the ticker case and calls checkHealth, which
\* is now at its mu.Lock().
MonitorTick ==
  /\ monPc = "select"
  /\ monPc' = "lock"
  /\ UNCHANGED <<isMasterActive, simulateFailure, failCount, switchCount, isRunning,
                 hcMu, stopChan, stopPc, recent, lastCheck, notHA>>

\* checkHealth from the moment it holds mu to its deferred Unlock, with
\* Switcher.SwitchToSlave and DBManager.SwitchToSlave inside.
checkHealth(pingOK) ==
  LET isHealthy == CheckMasterHealth(pingOK)
      switch == ~isHealthy /\ ThresholdReached(failCount + 1)
  IN  /\ monPc = "lock"
      /\ hcMu = "free"
      /\ switch => switchCount < MaxSwitches
      /\ failCount' = IF isHealthy \/ switch THEN 0 ELSE failCount + 1
      /\ isMasterActive' = IF switch THEN DBSwitchToSlave(isMasterActive)
                                     ELSE isMasterActive
      /\ switchCount' = IF switch THEN switchCount + 1 ELSE switchCount
      /\ recent' = IF switch THEN <<>> ELSE Remember(recent, isHealthy)
      /\ lastCheck' = IF isHealthy THEN "healthy" ELSE "unhealthy"
      /\ monPc' = "select"
      /\ UNCHANGED <<simulateFailure, isRunning, hcMu, stopChan, stopPc, notHA>>

\* main calls healthChecker.Stop: it is now at its mu.Lock().
StopCall ==
  /\ stopPc = "idle"
  /\ stopPc' = "lock"
  /\ UNCHANGED <<isMasterActive, simulateFailure, failCount, switchCount, isRunning,
                 hcMu, stopChan, monPc, recent, lastCheck, notHA>>

\* Stop takes mu: it returns at once when the checker is not running, else
\* closes stopChan and waits in wg.Wait(), mu still held.
StopLock ==
  /\ stopPc = "lock"
  /\ hcMu = "free"
  /\ IF ~isRunning
       THEN /\ stopPc' = "returned"
            /\ UNCHANGED <<hcMu, stopChan>>
       ELSE /\ hcMu' = "stop"
            /\ stopChan' = "closed"
            /\ stopPc' = "wait"
  /\ UNCHANGED <<isMasterActive, simulateFailure, failCount, switchCount, isRunning,
                 monPc, recent, lastCheck, notHA>>

\* wg.Wait() returns once the goroutine is done; Stop clears isRunning and
\* its deferred Unlock runs.
StopWait ==
  /\ stopPc = "wait"
  /\ monPc = "done"
  /\ isRunning' = FALSE
  /\ hcMu' = "free"
  /\ stopPc' = "returned"
  /\ UNCHANGED <<isMasterActive, simulateFailure, failCount, switchCount, stopChan,
                 monPc, recent, lastCheck, notHA>>

NextHA ==
  \/ \E b \in BOOLEAN : SetSimulateFailure(b)
  \/ Start
  \/ MonitorStop
  \/ MonitorTick
  \/ \E pingOK \in BOOLEAN : checkHealth(pingOK)
  \/ StopCall
  \/ StopLock
  \/ StopWait

\* The Go scheduler runs every goroutine that can take a step, and select
\* chooses at random among its ready cases, so the stopChan case is taken
\* if it is ready again and again.
SpecHA ==
  /\ Init
  /\ [][NextHA]_vars
  /\ WF_vars(StopLock)
  /\ WF_vars(StopWait)
  /\ WF_vars(\E pingOK \in BOOLEAN : checkHealth(pingOK))
  /\ SF_vars(MonitorStop)

\* -------------------------------------------------------------- SemiSync

\* time.Since(t)
Since(t) == now - t

\* WaitForACK on timeout: s.failureTime = time.Now()
SetFailureTime(old, t) == t

\* RecordACK's test for leaving the degraded status.
RecoveryDueEarly(since) == since > TimeoutMs

RecoveryDue(since) == since > TimeoutMs * 2

\* WaitForACK up to its loop: make the channel, put it in waitCh and start
\* the timer.
WaitForACKCall(position) ==
  /\ wPc = "idle"
  /\ waits < MaxWaits
  /\ waits' = waits + 1
  /\ ch' = NewChan
  /\ waitCh' = [waitCh EXCEPT ![position] = "waiter"]
  /\ received' = 0
  /\ wPos' = position
  /\ wPc' = "waiting"
  /\ ssRet' = NoAckReturn
  /\ deadline' = now + TimeoutMs
  /\ UNCHANGED <<ssStatus, acks, recorded, now, failureTime, lastTimeoutAt>>

\* WaitForACK called on its own.
WaitForACK(position) == WaitForACKCall(position) /\ UNCHANGED notSS

\* The loop's case ack := <-ch: a buffered value, or the zero value of a
\* closed channel, is received, counted and appended to acks; with MinSlaves
\* of them WaitForACK returns StatusOK, its channel left in waitCh.
WaitReceive ==
  /\ wPc = "waiting"
  /\ ch.buf > 0 \/ ch.closed
  /\ ch' = [ch EXCEPT !.buf = IF ch.buf > 0 THEN ch.buf - 1 ELSE 0]
  /\ acks' = [acks EXCEPT ![wPos] = @ + 1]
  /\ IF received + 1 >= MinSlaves
       THEN /\ received' = received + 1
            /\ wPc' = "idle"
            /\ ssRet' = [status |-> StatusOK, err |-> "nil"]
            /\ waitCh' = [waitCh EXCEPT ![wPos] = IF @ = "waiter" THEN "stale" ELSE @]
       ELSE /\ received' = received + 1
            /\ UNCHANGED <<wPc, ssRet, waitCh>>
  /\ UNCHANGED <<ssStatus, wPos, waits, recorded, now, failureTime, deadline,
                 lastTimeoutAt, notSS>>

\* The loop's case <-timeout.C, ready once the timer has fired.
WaitTimeout ==
  /\ wPc = "waiting"
  /\ now >= deadline
  /\ ssStatus' = StatusDegraded
  /\ failureTime' = SetFailureTime(failureTime, now)
  /\ lastTimeoutAt' = now
  /\ waitCh' = [waitCh EXCEPT ![wPos] = "none"]
  /\ wPc' = "idle"
  /\ ssRet' = [status |-> StatusTimeout, err |-> ErrAckTimeout]
  /\ UNCHANGED <<acks, ch, received, wPos, waits, recorded, now, deadline, notSS>>

\* RecordACK: a non-blocking send on the position's channel, the record,
\* and the recovery test.
RecordACKCall(position) ==
  /\ recorded[position] < MaxAcks
  /\ recorded' = [recorded EXCEPT ![position] = @ + 1]
  /\ ch' = IF waitCh[position] = "waiter" /\ ch.buf < MinSlaves
             THEN [ch EXCEPT !.buf = @ + 1]
             ELSE ch
  /\ acks' = [acks EXCEPT ![position] = @ + 1]
  /\ ssStatus' = IF ssStatus = StatusDegraded /\ RecoveryDue(Since(failureTime))
                  THEN StatusRecovered
                  ELSE ssStatus
  /\ UNCHANGED <<waitCh, received, wPc, wPos, ssRet, waits, now, failureTime,
                 deadline, lastTimeoutAt>>

\* RecordACK called on its own.
RecordACK(position) == RecordACKCall(position) /\ UNCHANGED notSS

\* CleanupOldACKs: drop the records and close and drop the channels of the
\* positions below beforePosition. A call that finds nothing below
\* beforePosition changes nothing and is left out.
CleanupOldACKs(beforePosition) ==
  /\ \E p \in Positions : p < beforePosition /\ (acks[p] > 0 \/ waitCh[p] # "none")
  /\ acks' = [p \in Positions |-> IF p < beforePosition THEN 0 ELSE acks[p]]
  /\ ch' = IF \E p \in Positions : p < beforePosition /\ waitCh[p] = "waiter"
             THEN [ch EXCEPT !.closed = TRUE]
             ELSE ch
  /\ waitCh' = [p \in Positions |-> IF p < beforePosition THEN "none" ELSE waitCh[p]]
  /\ UNCHANGED <<ssStatus, received, wPc, wPos, ssRet, waits, recorded, now,
                 failureTime, deadline, lastTimeoutAt, notSS>>

\* Time passes.
Tick ==
  /\ now < MaxTime
  /\ now' = now + 1
  /\ UNCHANGED <<ssStatus, acks, waitCh, ch, received, wPc, wPos, ssRet, waits,
                 recorded, failureTime, deadline, lastTimeoutAt, notSS>>

NextSemiSync ==
  \/ \E position \in Positions : WaitForACK(position)
  \/ WaitReceive
  \/ WaitTimeout
  \/ \E position \in Positions : RecordACK(position)
  \/ \E beforePosition \in 1..(MaxPosition + 1) : CleanupOldACKs(beforePosition)
  \/ Tick

SpecSemiSync == Init /\ [][NextSemiSync]_vars

\* ----------------------------------------------------- Binlog and Master

\* append: b.position++
NextPositionSame(pos) == pos

NextPosition(pos) == pos + 1

\* append's locked section: the entries after it. json.Marshal of a Record
\* (an id, a string and two times) does not fail, so append's error return
\* is not taken.
AppendEntry(operation, recordID) ==
  Append(entries, BinlogEntry(NextPosition(binlogPos), operation, recordID))

\* Variant of GetEntries: the entry at fromPosition is returned too.
GetEntriesFrom(fromPosition) ==
  SelectSeq(entries, LAMBDA entry : entry.ID >= fromPosition)

\* GetEntries: the entries whose ID is above fromPosition, in stored order.
GetEntries(fromPosition) ==
  SelectSeq(entries, LAMBDA entry : entry.ID > fromPosition)

\* GetCurrentPosition
GetCurrentPosition == binlogPos

\* AppendInsert, AppendUpdate or AppendDelete called by goroutine a: append
\* up to its b.mu.Lock().
AppendCall(a, operation, recordID) ==
  /\ appPc[a] = "idle"
  /\ Len(entries) < MaxEntries
  /\ appPc' = [appPc EXCEPT ![a] = "marshalled"]
  /\ appArg' = [appArg EXCEPT ![a] = [op |-> operation, rec |-> recordID]]
  /\ UNCHANGED <<entries, binlogPos, appRet, records, nextID, totalWrites, mPc, mOp,
                 mRet, ssVars, notMS>>

\* append from b.mu.Lock() to its return.
AppendLocked(a) ==
  /\ appPc[a] = "marshalled"
  /\ Len(entries) < MaxEntries
  /\ binlogPos' = NextPosition(binlogPos)
  /\ entries' = AppendEntry(appArg[a].op, appArg[a].rec)
  /\ appRet' = [appRet EXCEPT ![a] = NextPosition(binlogPos)]
  /\ appPc' = [appPc EXCEPT ![a] = "idle"]
  /\ UNCHANGED <<appArg, records, nextID, totalWrites, mPc, mOp, mRet, ssVars, notMS>>

NextBinlog ==
  \/ \E a \in Appenders : \E operation \in Operations : \E recordID \in RecIDs :
       AppendCall(a, operation, recordID)
  \/ \E a \in Appenders : AppendLocked(a)

SpecBinlog == Init /\ [][NextBinlog]_vars

\* The error a write returns after its semi-sync wait returned status.
WriteErrorOnTimeout(status) == IF status = StatusTimeout THEN ErrAckTimeout ELSE "nil"

WriteError(status) == "nil"

\* A write that returns before the binlog: its database call failed.
WriteFails(kind, err) ==
  /\ mRet' = [kind |-> kind, err |-> err]
  /\ UNCHANGED <<entries, binlogPos, records, nextID, mPc, mOp>>

\* A write up to its WaitForACK call: the table is changed and the entry
\* appended.
WriteApplied(kind, operation, id, content) ==
  /\ entries' = AppendEntry(operation, id)
  /\ binlogPos' = NextPosition(binlogPos)
  /\ mOp' = [kind |-> kind, id |-> id, content |-> content,
             pos |-> NextPosition(binlogPos), waitFrom |-> 0, timely |-> 0]
  /\ mPc' = "appended"
  /\ mRet' = NoWriteReturn

\* Master.CreateRecord up to WaitForACK; dbOK says whether the INSERT works.
CreateRecord(content, dbOK) ==
  /\ mPc = "idle"
  /\ Len(entries) < MaxPosition
  /\ nextID <= MaxRecords
  /\ IF ~dbOK
       THEN WriteFails("create", ErrCreate)
       ELSE /\ records' = [records EXCEPT ![nextID] = content]
            /\ nextID' = nextID + 1
            /\ WriteApplied("create", OpInsert, nextID, content)
  /\ UNCHANGED <<appPc, appArg, appRet, totalWrites, ssVars, notMS>>

\* Master.UpdateRecord up to WaitForACK; dbOK says whether the UPDATE works.
UpdateRecord(id, content, dbOK) ==
  /\ mPc = "idle"
  /\ Len(entries) < MaxPosition
  /\ IF records[id] = "absent"
       THEN WriteFails("update", ErrNotFound)
       ELSE IF ~dbOK
              THEN WriteFails("update", ErrUpdate)
              ELSE /\ records' = [records EXCEPT ![id] = content]
                   /\ UNCHANGED nextID
                   /\ WriteApplied("update", OpUpdate, id, content)
  /\ UNCHANGED <<appPc, appArg, appRet, totalWrites, ssVars, notMS>>

\* Master.DeleteRecord up to WaitForACK; dbOK says whether the DELETE works.
DeleteRecord(id, dbOK) ==
  /\ mPc = "idle"
  /\ Len(entries) < MaxPosition
  /\ IF records[id] = "absent"
       THEN WriteFails("delete", ErrNotFound)
       ELSE IF ~dbOK
              THEN WriteFails("delete", ErrDelete)
              ELSE /\ records' = [records EXCEPT ![id] = "absent"]
                   /\ UNCHANGED nextID
                   /\ WriteApplied("delete", OpDelete, id, "absent")
  /\ UNCHANGED <<appPc, appArg, appRet, totalWrites, ssVars, notMS>>

\* The write calls m.semiSync.WaitForACK(pos).
MasterWait ==
  /\ mPc = "appended"
  /\ WaitForACKCall(mOp.pos)
  /\ mPc' = "waiting"
  /\ mOp' = [mOp EXCEPT !.waitFrom = now]
  /\ UNCHANGED <<entries, binlogPos, appPc, appArg, appRet, records, nextID,
                 totalWrites, mRet, notMS>>

\* WaitForACK has returned: the write logs a warning on error, counts
\* itself and returns.
MasterReturn ==
  /\ mPc = "waiting"
  /\ wPc = "idle"
  /\ totalWrites' = totalWrites + 1
  /\ mRet' = [kind |-> mOp.kind, err |-> WriteError(ssRet.status)]
  /\ mPc' = "idle"
  /\ UNCHANGED <<entries, binlogPos, appPc, appArg, appRet, records, nextID, mOp,
                 ssVars, notMS>>

\* The acknowledgement is for the entry of the write in progress and comes
\* after the entry was appended and before the timer of its WaitForACK fires.
TimelyACK(position) ==
  /\ position = mOp.pos
  /\ \/ mPc = "appended"
     \/ mPc = "waiting" /\ wPc = "waiting" /\ now < deadline

\* Master.RecordSlaveACK: the slave's acknowledgement goes to RecordACK. The
\* field timely of the write in progress counts its timely acknowledgements.
RecordSlaveACK(position) ==
  /\ RecordACKCall(position)
  /\ mOp' = IF TimelyACK(position) THEN [mOp EXCEPT !.timely = @ + 1] ELSE mOp
  /\ UNCHANGED <<entries, binlogPos, appPc, appArg, appRet, records, nextID,
                 totalWrites, mPc, mRet, notMS>>

NextMaster ==
  \/ \E content \in Contents : \E dbOK \in BOOLEAN : CreateRecord(content, dbOK)
  \/ \E id \in RecIDs : \E content \in Contents : \E dbOK \in BOOLEAN :
       UpdateRecord(id, content, dbOK)
  \/ \E id \in RecIDs : \E dbOK \in BOOLEAN : DeleteRecord(id, dbOK)
  \/ MasterWait
  \/ WaitReceive
  \/ WaitTimeout
  \/ MasterReturn
  \/ \E position \in Positions : RecordSlaveACK(position)
  \/ Tick

SpecMaster == Init /\ [][NextMaster]_vars

\* --------------------------------------------------- read-write-splitting

\* unicode.IsSpace, and the regular expression's \s, on the characters used.
IsSpace(c) == c \in {" ", "\t", "\n"}

\* strings.TrimSpace
RECURSIVE TrimLeft(_)
TrimLeft(sql) ==
  IF sql # <<>> /\ IsSpace(Head(sql)) THEN TrimLeft(Tail(sql)) ELSE sql

RECURSIVE TrimRight(_)
TrimRight(sql) ==
  IF sql # <<>> /\ IsSpace(sql[Len(sql)])
    THEN TrimRight(SubSeq(sql, 1, Len(sql) - 1))
    ELSE sql

TrimSpace(sql) == TrimRight(TrimLeft(sql))

\* The case folding of (?i), on the letters of SELECT.
Fold(c) ==
  CASE c = "s" -> "S"
    [] c = "e" -> "E"
    [] c = "l" -> "L"
    [] c = "c" -> "C"
    [] c = "t" -> "T"
    [] OTHER -> c

\* A match of SELECT at the start of sql, letter case as written.
MatchesExactCase(sql) ==
  Len(sql) >= Len(SELECT) /\ SubSeq(sql, 1, Len(SELECT)) = SELECT

\* A match of (?i)SELECT at the start of sql.
MatchesSELECT(sql) ==
  /\ Len(sql) >= Len(SELECT)
  /\ [i \in 1..Len(SELECT) |-> Fold(sql[i])] = SELECT

\* selectRegex.MatchString: (?i)^\s*SELECT
RECURSIVE MatchString(_)
MatchString(sql) ==
  IF sql # <<>> /\ IsSpace(Head(sql)) THEN MatchString(Tail(sql))
  ELSE MatchesSELECT(sql)

IsReadOperation(sql) == MatchString(TrimSpace(sql))

\* atomic.AddInt32(&p.current, 1): the sum wraps at 32 bits.
AddInt32(n) == IF n = MaxInt32 THEN MinInt32 ELSE n + 1

\* Go's % on int32: the remainder has the sign of the dividend.
Rem(a, n) ==
  LET m == a % n
  IN  IF a < 0 /\ m # 0 THEN m - n ELSE m

\* p.slaves[i]
SlaveAt(i) == IF i \in 0..(slaveCount - 1) THEN SlaveConn(i) ELSE IndexPanic(i)

\* DBPool.Slave called k times in a row: the counter after the calls and
\* the connection the last call returns.
PoolSlave(k) ==
  IF slaveCount = 0
    THEN /\ rwConn' = MasterConn
         /\ UNCHANGED current
    ELSE /\ current >= 0 => current <= MaxInt32 - (k - 1)
         /\ current' = AddInt32(current + (k - 1))
         /\ rwConn' = SlaveAt(Rem(current', slaveCount))

\* DBPool.Master
PoolMaster ==
  /\ rwConn' = MasterConn
  /\ UNCHANGED current

\* NewDBPool: connected is the number of configured slaves that could be
\* connected.
NewDBPool(connected) ==
  /\ rwPc = "unbuilt"
  /\ rwPc' = "ready"
  /\ slaveCount' = connected
  /\ UNCHANGED <<current, rwCall, rwConn, rwCalls, notRW>>

\* One more call on a built proxy.
Called(op, sql) ==
  /\ rwPc = "ready"
  /\ rwCalls < MaxCalls
  /\ rwCalls' = rwCalls + 1
  /\ rwCall' = [op |-> op, sql |-> sql]
  /\ UNCHANGED <<rwPc, slaveCount, notRW>>

\* SQLRouter.Route, as DBProxy.Raw and DBProxy.Exec call it.
Route(sql) ==
  /\ Called("Route", sql)
  /\ IF IsReadOperation(sql) THEN PoolSlave(1) ELSE PoolMaster

\* DBPool.Slave, directly or through ReadDB, DBProxy.Slave, Find, First or
\* Take; k calls in a row.
Slave(k) ==
  /\ Called("Slave", <<>>)
  /\ PoolSlave(k)

\* DBProxy.Create, Save, Updates, Delete and Transaction.
ProxyWrite(method) ==
  /\ Called(method, <<>>)
  /\ PoolMaster

NextRW ==
  \/ \E connected \in 0..MaxSlaves : NewDBPool(connected)
  \/ \E sql \in Statements : Route(sql)
  \/ \E k \in {1, LongRun} : Slave(k)
  \/ \E method \in WriteMethods : ProxyWrite(method)

SpecRW == Init /\ [][NextRW]_vars

\* ------------------------------------------------------------ properties

\* What a caller reads back, and the steps a property speaks about.
Status(x) == transactions[x].Status

FinishTime(x) == transactions[x].FinishTime

\* GetParticipants: every row of p under x carries this status, and there is one.
RecordIs(recs, x, p, status) ==
  /\ HasRecord(recs, x, p)
  /\ \A i \in DOMAIN recs[<<x, p>>] : recs[<<x, p>>][i] = status

\* The step in which the call of c to op returns after its round.
Returns(c, op) == call[c].op = op /\ call'[c].op = "idle"

\* The step in which the call of c to op returns without a round.
Refused(c, op) ==
  /\ Idle(c)
  /\ call'[c].op = "idle"
  /\ ret'[c].op = op
  /\ ret'[c] # ret[c]

\* The step in which c starts a round of op.
Starts(c, op) == Idle(c) /\ call'[c].op = op

\* The step in which the goroutine of p in the round of op runs.
Runs(c, op, p) ==
  /\ call[c].op = op
  /\ call[c].pc[p] = "go"
  /\ call'[c].pc[p] = "done"

\* Only one transaction has been begun on this coordinator.
SingleXid == Len(transactions) = 1

\* C1: atomic outcome for a single xid.  When Commit(xid) returns (true, nil),
\* the status is committed and every registered participant has committed in
\* its resource the work of a handle opened in Prepare(xid); and no handle is
\* committed unless every participant the last Prepare round called succeeded
\* in Register and Prepare for that xid.
C1_AtomicOutcome ==
  [][/\ (SingleXid /\ Returns(Caller, "commit") /\ ret'[Caller].ok)
          => /\ transactions'[call[Caller].xid].Status = StatusCommitted
             /\ \A p \in Participants : call[Caller].xid \in resource'[p]
     /\ \A p \in Names :
          (SingleXid /\ resource'[p] # resource[p])
            => /\ Runs(Caller, "commit", p)
               /\ prepared.xid = LocalTx[p].xid
               /\ prepared.ok = prepared.round
               /\ p \in prepared.ok]_vars

\* C1 happens: Commit has returned (true, nil) for the only transaction and
\* both registered participants have its work in their resources.
C1_Witness ==
  /\ SingleXid
  /\ ret[Caller] = Return("commit", 1, TRUE, "nil")
  /\ Participants = Names
  /\ \A p \in Names : 1 \in resource[p]

store == <<Participants, LocalTx, resource, transactions, partRecs>>

\* C3: Commit called when the status is not prepared returns failure, starts
\* no participant's Commit, and leaves the status, the participant records and
\* the handles unchanged.
C3_CommitNeedsPrepared ==
  [][/\ Starts(Caller, "commit") => Status(call'[Caller].xid) = StatusPrepared
     /\ \A x \in DOMAIN transactions :
          (Idle(Caller) /\ Status(x) # StatusPrepared)
            => ~(call'[Caller].op = "commit" /\ call'[Caller].xid = x)
     /\ Refused(Caller, "commit")
          => /\ ~ret'[Caller].ok
             /\ UNCHANGED store
             /\ Exists(ret'[Caller].xid)
                  => /\ Status(ret'[Caller].xid) # StatusPrepared
                     /\ ret'[Caller].err = ErrNotPrepared]_vars

\* C3 happens: Commit was refused on a failed transaction while a participant
\* still holds the open handle of its Prepare.
C3_Witness ==
  \E x \in DOMAIN transactions :
    /\ ret[Caller] = Return("commit", x, FALSE, ErrNotPrepared)
    /\ Status(x) = StatusFailed
    /\ \E p \in Participants : LocalTx[p] = NewTx(x)

C5_NoDoubleCommit ==
  [][\A x \in committed :
       /\ ~(Starts(Caller, "commit") /\ call'[Caller].xid = x)
       /\ (Refused(Caller, "commit") /\ ret'[Caller].xid = x)
            => /\ ret'[Caller] = Return("commit", x, FALSE, ErrNotPrepared)
               /\ UNCHANGED <<LocalTx, resource>>
               /\ transactions'[x].Status = StatusCommitted]_vars

\* C6: after an operation has returned, a transaction has a finish time exactly
\* when its status is terminal.
C6_FinishTimeIffTerminal ==
  AllIdle =>
    \A x \in DOMAIN transactions :
      (Status(x) \in TerminalStatuses) <=> (FinishTime(x) # 0)

\* C7: the finish time of a transaction is written at most once, and only by a
\* step that leaves the status terminal.
C7_FinishTimeWrittenOnce ==
  [][\A x \in DOMAIN transactions :
       transactions'[x].FinishTime # FinishTime(x)
         => /\ FinishTime(x) = 0
            /\ transactions'[x].Status \in TerminalStatuses]_vars

\* C8 (its second half, which the listed transitions imply as well): once the
\* status is committed, rolledback or failed, no Prepare, Commit or Rollback
\* changes it.
C8_TerminalStatusIsFinal ==
  [][\A x \in DOMAIN transactions :
       Status(x) \in TerminalStatuses
         => transactions'[x].Status = Status(x)]_vars

\* Every registered participant succeeded in the last Prepare round, and that
\* round was for x.
AllPreparedFor(x) ==
  /\ prepared.xid = x
  /\ prepared.round = Participants
  /\ prepared.ok = prepared.round

\* The newest row of p under x.
LastRecord(recs, x, p) == recs[<<x, p>>][Len(recs[<<x, p>>])]

\* C9 as stated: when all participants prepared and a participant's commit
\* fails, Commit returns (false, err), the status becomes failed, the records
\* of the participants that committed read committed and the record of each
\* participant whose commit failed reads failed.
C9_PartialCommitFailure ==
  [][LET x == call[Caller].xid
         res == call[Caller].res
     IN  (/\ Returns(Caller, "commit")
          /\ AllPreparedFor(x)
          /\ \E p \in Participants : ~res[p].Success)
           => /\ ~ret'[Caller].ok
              /\ ret'[Caller].err # "nil"
              /\ transactions'[x].Status = StatusFailed
              /\ \A p \in Participants :
                   IF res[p].Success
                     THEN RecordIs(partRecs', x, p, ParticipantCommitted)
                     ELSE RecordIs(partRecs', x, p, ParticipantFailed)]_vars

\* C9 amended: as above, except that a participant that has no handle when
\* Commit runs (LocalTx is nil, as after the invalidation) fails with "no active
\* local transaction" and its record is not written: the row of its Register
\* still reads registered.  Only a participant whose handle refused the commit
\* has a record that reads failed.
C9_PartialCommitFailureAmended ==
  [][LET x == call[Caller].xid
         res == call[Caller].res
     IN  /\ (/\ Returns(Caller, "commit")
             /\ AllPreparedFor(x)
             /\ \E p \in Participants : ~res[p].Success)
              => /\ ~ret'[Caller].ok
                 /\ ret'[Caller].err \in {ErrNoActiveTx, ErrHandleCommit}
                 /\ transactions'[x].Status = StatusFailed
                 /\ \A p \in Participants :
                      CASE res[p].Success ->
                             RecordIs(partRecs', x, p, ParticipantCommitted)
                        [] res[p].Err = ErrNoActiveTx ->
                             LastRecord(partRecs', x, p) = ParticipantRegistered
                        [] OTHER ->
                             /\ res[p].Err = ErrHandleCommit
                             /\ RecordIs(partRecs', x, p, ParticipantFailed)
         /\ \A p \in Names :
              (Runs(Caller, "commit", p) /\ LocalTx[p] = NilTx)
                => /\ call'[Caller].res[p] = OperationResult(FALSE, ErrNoActiveTx)
                   /\ UNCHANGED <<partRecs, LocalTx, resource>>]_vars

\* C9 happens: after both participants prepared, one handle was invalidated;
\* Commit returned (false, "no active local transaction"), the status is failed,
\* one record reads committed and the other still reads registered.
C9_Witness ==
  \E x \in DOMAIN transactions : \E p, q \in Names :
    /\ ret[Caller] = Return("commit", x, FALSE, ErrNoActiveTx)
    /\ AllPreparedFor(x)
    /\ Status(x) = StatusFailed
    /\ RecordIs(partRecs, x, p, ParticipantCommitted)
    /\ RecordIs(partRecs, x, q, ParticipantRegistered)

\* C10: when every registered participant succeeds in Prepare the status becomes
\* prepared and each participant holds a record and, unless it is invalidated,
\* the open handle of this Prepare; in the Commit that follows a participant
\* fails only if its handle refuses the commit; and when every participant
\* commits, Commit returns (true, nil), the status becomes committed, the finish
\* time is set and every participant's record reads committed.
C10_HappyPath ==
  [][/\ \A x \in DOMAIN transactions :
          ret[Caller] = Return("prepare", x, TRUE, "nil")
            => /\ Status(x) = StatusPrepared
               /\ \A p \in prepared.round :
                    /\ HasRecord(partRecs, x, p)
                    /\ LocalTx[p] \in {NewTx(x), NilTx}
     /\ \A p \in Names :
          LET x == call[Caller].xid IN
          (Runs(Caller, "commit", p) /\ LocalTx[p] = NewTx(x) /\ HasRecord(partRecs, x, p))
            => \/ /\ call'[Caller].res[p] = OperationResult(TRUE, "nil")
                  /\ x \in resource'[p]
                  /\ LocalTx'[p] = NilTx
               \/ call'[Caller].res[p] = OperationResult(FALSE, ErrHandleCommit)
     /\ (Returns(Caller, "commit") /\ \A p \in Participants : call[Caller].res[p].Success)
          => LET x == call[Caller].xid IN
             /\ ret'[Caller] = Return("commit", x, TRUE, "nil")
             /\ transactions'[x].Status = StatusCommitted
             /\ transactions'[x].FinishTime # 0
             /\ \A p \in Participants :
                  RecordIs(partRecs', x, p, ParticipantCommitted)]_vars

\* C10 happens: Prepare and then Commit ran with both participants; Commit
\* returned (true, nil), the transaction is committed with a finish time and
\* both records read committed.
C10_Witness ==
  \E x \in DOMAIN transactions :
    /\ rounds = 2
    /\ Participants = Names
    /\ ret[Caller] = Return("commit", x, TRUE, "nil")
    /\ Status(x) = StatusCommitted
    /\ FinishTime(x) = 1
    /\ \A p \in Names : RecordIs(partRecs, x, p, ParticipantCommitted)

\* C11: when a participant's prepare action fails, Prepare returns (false, err)
\* with the error of a failing participant and the failed action's handle is
\* rolled back; Rollback of that transaction is then not refused, it returns
\* (true, nil), it rolls back the open handle of every participant that accepts
\* the rollback, and from the start of Prepare to the return of Rollback no
\* participant's resource data changes.
C11_RollbackRestores ==
  [][/\ (call[Caller].op \in {"prepare", "rollback"}) => resource' = resource
     /\ \A p \in Names :
          (Runs(Caller, "prepare", p) /\ call'[Caller].res[p].Err = ErrAction)
            => /\ ~call'[Caller].res[p].Success
               /\ LocalTx'[p] = [xid |-> call[Caller].xid, state |-> "rolledback"]
     /\ (Returns(Caller, "prepare")
         /\ \E p \in Participants : ~call[Caller].res[p].Success)
          => /\ ~ret'[Caller].ok
             /\ \E p \in Participants : /\ ~call[Caller].res[p].Success
                                        /\ ret'[Caller].err = call[Caller].res[p].Err
     /\ \A x \in DOMAIN transactions :
          (ret[Caller].op = "prepare" /\ ret[Caller].xid = x /\ ~ret[Caller].ok)
            => /\ resource' = resource
               /\ ~(Refused(Caller, "rollback") /\ ret'[Caller].xid = x)
     /\ \A p \in Names :
          (Runs(Caller, "rollback", p) /\ call'[Caller].res[p].Success)
            => HandleOpen(p) /\ LocalTx'[p] = NilTx
     /\ Returns(Caller, "rollback")
          => ret'[Caller] = Return("rollback", call[Caller].xid, TRUE, "nil")]_vars

\* C11 happens: one participant's action failed and the other's succeeded in
\* Prepare; the Rollback that followed returned (true, nil), the prepared handle
\* is rolled back and both resources hold nothing of the transaction.
C11_Witness ==
  \E x \in DOMAIN transactions : \E p, q \in Names :
    /\ rounds = 2
    /\ prepared = [xid |-> x, round |-> Names, ok |-> {p}]
    /\ ret[Caller] = Return("rollback", x, TRUE, "nil")
    /\ LocalTx[p] = NilTx
    /\ LocalTx[q] = [xid |-> x, state |-> "rolledback"]
    /\ RecordIs(partRecs, x, p, ParticipantRolledBack)
    /\ \A r \in Names : resource[r] = {}

\* The results a participant's Rollback can give.
RollbackOutcomes ==
  {OperationResult(TRUE, "nil"),
   OperationResult(FALSE, ErrHandleRollback),
   OperationResult(FALSE, ErrNoActiveTx),
   OperationResult(FALSE, ErrRecordNotFound)}

C13_HandleNilUnlessPrepared ==
  [][\A p \in Names :
       /\ (Runs(Caller, "prepare", p) /\ call'[Caller].res[p].Success)
            => LocalTx'[p] # NilTx
       /\ (Runs(Caller, "prepare", p) /\ call'[Caller].res[p].Err = ErrAction)
            => LocalTx'[p] = NilTx
       /\ (Runs(Caller, "commit", p) \/ Runs(Caller, "rollback", p))
            => LocalTx'[p] = NilTx]_vars

\* C14: the participant store holds at most one record for each pair of xid
\* and participant name.
C14_OneRecordPerParticipant ==
  \A x \in XIDs : \A p \in Names : Len(partRecs[<<x, p>>]) <= 1

\* C15: a participant record that reads committed, rolledback or failed never
\* reads registered or prepared again, and a record that reads failed is never
\* changed.
C15_RecordStatusMonotonic ==
  [][\A x \in XIDs : \A p \in Names : \A i \in DOMAIN partRecs[<<x, p>>] :
       LET old == partRecs[<<x, p>>][i]
           new == partRecs'[<<x, p>>][i]
       IN  /\ old \in {ParticipantCommitted, ParticipantRolledBack, ParticipantFailed}
                => new \notin {ParticipantRegistered, ParticipantPrepared}
           /\ old = ParticipantFailed => new = ParticipantFailed]_vars

\* C16: at most one Prepare, Commit or Rollback round is in progress on the
\* coordinator at any time.
C16_OneRoundAtATime ==
  Cardinality({c \in Callers : ~Idle(c)}) <= 1


\* ------------------------------------------------- ha-switcher properties

\* The number of unhealthy results at the end of a history of checks.
RECURSIVE TrailingFailures(_)
TrailingFailures(h) ==
  IF h = <<>> \/ h[Len(h)] THEN 0
  ELSE 1 + TrailingFailures(SubSeq(h, 1, Len(h) - 1))

\* A step in which checkHealth runs.
Checks == monPc = "lock" /\ monPc' = "select"

\* A step in which Switcher.SwitchToSlave runs.
Switches == switchCount' = switchCount + 1

C18_SlaveAfterFailover ==
  /\ [](switchCount = 0 => GetDB = "masterDB")
  /\ [](switchCount > 0 => GetDB = "slaveDB")
  /\ [][~isMasterActive => ~isMasterActive' /\ GetDB' = "slaveDB"]_vars

\* SwitchToSlave has been called a second time.
C18_Witness == switchCount = 2 /\ GetDB = "slaveDB"

\* C19: once Stop has been called it returns, with the monitorHealth
\* goroutine, if one was started, terminated.
C19_StopReturns ==
  (stopPc # "idle") ~> (stopPc = "returned" /\ monPc \in {"none", "done"})

\* ---------------------------------------------------- SemiSync properties

\* A step in which WaitForACK returns.
AckReturns == wPc = "waiting" /\ wPc' = "idle"

\* C20: WaitForACK(p) returns StatusOK only when at least MinSlaves RecordACK
\* calls have been made for p; any other return is StatusTimeout with an
\* error, and leaves the manager's status DEGRADED.
C20_OKNeedsMinSlavesACKs ==
  [][AckReturns =>
       /\ ssRet'.status = StatusOK => recorded'[wPos] >= MinSlaves
       /\ ssRet'.status # StatusOK =>
            /\ ssRet'.status = StatusTimeout
            /\ ssRet'.err # "nil"
            /\ ssStatus' = StatusDegraded]_vars

\* A step in which RecordACK runs.
Acks == recorded' # recorded

\* A step in which a WaitForACK times out.
TimesOut == AckReturns /\ ssRet'.status = StatusTimeout

\* C21: the status becomes RECOVERED only from DEGRADED, in a RecordACK made
\* more than 2 * TimeoutMs after the last timeout; a RecordACK made earlier
\* leaves it DEGRADED; a WaitForACK that times out leaves it DEGRADED,
\* whatever it was.
C21_RecoveryAfterTwiceTimeout ==
  [][/\ (ssStatus' = StatusRecovered /\ ssStatus # StatusRecovered) =>
          /\ ssStatus = StatusDegraded
          /\ Acks
          /\ now - lastTimeoutAt > 2 * TimeoutMs
     /\ (ssStatus = StatusDegraded /\ Acks /\ now - lastTimeoutAt <= 2 * TimeoutMs) =>
          ssStatus' = StatusDegraded
     /\ (ssStatus = StatusDegraded /\ ssStatus' # StatusDegraded) =>
          ssStatus' = StatusRecovered
     /\ TimesOut => ssStatus' = StatusDegraded]_vars

\* A second WaitForACK has timed out and a later RecordACK has recovered the
\* status.
C21_Witness ==
  /\ ssStatus = StatusRecovered
  /\ waits = 2
  /\ wPc = "idle"
  /\ ssRet.status = StatusTimeout

\* ------------------------------------------- Binlog and Master properties

\* A step in which a write that reached its semi-sync wait returns.
WriteReturns == mPc = "waiting" /\ mPc' = "idle"

\* The records table shows the change of the write in progress.
ChangeApplied ==
  IF mOp.kind = "delete" THEN records[mOp.id] = "absent"
                         ELSE records[mOp.id] = mOp.content

\* The binlog's last entry is the one entry of the write in progress.
OneEntryAppended ==
  /\ Len(entries) = mOp.pos
  /\ \A i \in 1..Len(entries) : entries[i].ID = mOp.pos <=> i = mOp.pos
  /\ entries[mOp.pos].RecordID = mOp.id
  /\ entries[mOp.pos].Operation =
       (CASE mOp.kind = "create" -> OpInsert
          [] mOp.kind = "update" -> OpUpdate
          [] OTHER -> OpDelete)

\* C22: a CreateRecord, UpdateRecord or DeleteRecord that reached its
\* semi-sync wait returns no error, also when the wait timed out, with its
\* change in the table and exactly one binlog entry appended for it; it
\* returns only after MinSlaves acknowledgements of its position were
\* recorded or TimeoutMs has passed since the wait began.
C22_TimeoutStillSucceeds ==
  [][WriteReturns =>
       /\ mRet'.err = "nil"
       /\ ChangeApplied' /\ OneEntryAppended'
       /\ \/ ssRet.status = StatusOK /\ recorded[mOp.pos] >= MinSlaves
          \/ ssRet.status = StatusTimeout /\ now >= mOp.waitFrom + TimeoutMs]_vars

\* An update whose semi-sync wait timed out has returned.
C22_Witness ==
  /\ mRet = [kind |-> "update", err |-> "nil"]
  /\ ssRet.status = StatusTimeout
  /\ totalWrites = 2
  /\ mPc = "idle"

\* A step in which goroutine a's append returns.
AppendReturns(a) == appPc[a] = "marshalled" /\ appPc'[a] = "idle"

\* C23: the i-th stored entry has ID i, so IDs start at 1, are unique,
\* strictly increasing and without gaps; GetCurrentPosition is the number of
\* entries; GetEntries(from) is the stored entries after the from-th; and an
\* append, also with another append in progress, assigns and returns the
\* previous position + 1.
C23_BinlogPositions ==
  /\ [](\A i \in 1..Len(entries) : entries[i].ID = i)
  /\ [](GetCurrentPosition = Len(entries))
  /\ [](\A from \in 0..(MaxEntries + 1) :
          GetEntries(from) =
            IF from >= Len(entries) THEN <<>>
            ELSE SubSeq(entries, from + 1, Len(entries)))
  /\ [][\A a \in Appenders : AppendReturns(a) =>
          /\ appRet'[a] = GetCurrentPosition + 1
          /\ GetCurrentPosition' = GetCurrentPosition + 1
          /\ entries' = Append(entries, entries'[Len(entries')])
          /\ entries'[Len(entries')].ID = appRet'[a]]_vars

\* Both goroutines have appended, the second while the first is in its
\* next append.
C23_Witness ==
  /\ appRet["a1"] = 1
  /\ appRet["a2"] = 2
  /\ appPc["a1"] = "marshalled"
  /\ Len(GetEntries(1)) = 1

\* --------------------------------------- read-write-splitting properties

\* The two cases of a letter of SELECT.
CaseVariants(c) ==
  {c} \cup (CASE c = "S" -> {"s"}
              [] c = "E" -> {"e"}
              [] c = "L" -> {"l"}
              [] c = "C" -> {"c"}
              [] c = "T" -> {"t"}
              [] OTHER -> {})

\* sql, after its leading whitespace, begins with SELECT in any letter case.
BeginsWithSelect(sql) ==
  LET rest == TrimLeft(sql)
  IN  /\ Len(rest) >= Len(SELECT)
      /\ \A i \in 1..Len(SELECT) : rest[i] \in CaseVariants(SELECT[i])

\* A step in which the method op of the proxy, router or pool is called.
Calls(op) == rwCalls' = rwCalls + 1 /\ rwCall'.op = op

\* C24: Route sends a statement to a slave connection exactly when it
\* begins with SELECT, and to the master otherwise; the write methods and
\* Transaction use the master.
C24_RouteBySelect ==
  [][/\ Calls("Route") =>
          /\ rwConn'.kind = "slave" <=> BeginsWithSelect(rwCall'.sql)
          /\ rwConn' = MasterConn <=> ~BeginsWithSelect(rwCall'.sql)
     /\ \A method \in WriteMethods : Calls(method) => rwConn' = MasterConn]_vars

\* C24, amended: Route sends a statement to the master exactly when it does
\* not begin with SELECT or the pool has no slave; the write methods and
\* Transaction use the master.
C24_RouteBySelectAmended ==
  [][/\ Calls("Route") =>
          (rwConn' = MasterConn <=>
             (~BeginsWithSelect(rwCall'.sql) \/ slaveCount = 0))
     /\ \A method \in WriteMethods : Calls(method) => rwConn' = MasterConn]_vars

\* A SELECT in lower case, after whitespace, was routed to the master of a
\* pool without slaves.
C24_Witness ==
  /\ rwCall = [op |-> "Route", sql |-> <<"\t", "s", "e", "l", "e", "c", "t">>]
  /\ slaveCount = 0
  /\ rwConn = MasterConn

\* A step in which DBPool.Slave is called once.
SlaveOnce ==
  /\ rwCalls' = rwCalls + 1
  /\ rwCall'.op \in {"Slave", "Route"}
  /\ slaveCount = 0 \/ current' = AddInt32(current)
  /\ rwCall'.op = "Route" => BeginsWithSelect(rwCall'.sql)

\* C25: DBPool.Slave returns the master when there is no slave; otherwise,
\* whatever the counter, it returns one of the slaves, and when the previous
\* call of DBPool.Slave returned slave i this one returns slave
\* (i + 1) % slaveCount.
C25_SlaveRoundRobin ==
  [][SlaveOnce =>
       IF slaveCount = 0 THEN rwConn' = MasterConn
       ELSE /\ rwConn'.kind = "slave"
            /\ rwConn'.index \in 0..(slaveCount - 1)
            /\ (rwConn.kind = "slave" /\ rwCall.op \in {"Slave", "Route"}) =>
                 rwConn'.index = (rwConn.index + 1) % slaveCount]_vars

\* ------------------------------------------- participant-level properties

\* C26: Participant.Prepare puts a new handle for the xid in LocalTx and runs
\* the action on it.  When the action fails the handle is rolled back in the
\* same call, the result is a failure with the action's error, and no record
\* of the participant for the xid reads prepared; when it succeeds the result
\* is a success and the handle stays open, neither committed nor rolled back,
\* in LocalTx.  The resource data is not changed either way.
C26_PrepareHandle ==
  [][\A p \in Names :
       (Runs(Caller, "prepare", p) /\ call'[Caller].res[p].Err # ErrNoAction) =>
         LET x == call[Caller].xid
             r == call'[Caller].res[p]
         IN  /\ LocalTx'[p].xid = x
             /\ resource' = resource
             /\ r.Success => r.Err = "nil" /\ LocalTx'[p].state = "open"
             /\ ~r.Success =>
                  /\ r.Err = ErrAction
                  /\ LocalTx'[p].state = "rolledback"
                  /\ \A i \in 1..Len(partRecs'[<<x, p>>]) :
                       partRecs'[<<x, p>>][i] # ParticipantPrepared]_vars

\* A Prepare round in which one participant's action failed and the other's
\* succeeded.
C26_Witness ==
  /\ call[Caller].op = "prepare"
  /\ AllDone(Caller)
  /\ LocalTx["order_service"] = NewTx(call[Caller].xid)
  /\ LocalTx["payment_service"].state = "rolledback"
  /\ call[Caller].res["payment_service"].Err = ErrAction

\* C27: a Participant.Commit or Participant.Rollback that finds no open handle
\* on the participant fails with 'no active local transaction' and leaves the
\* participant's records, its handle and its resource as they were.
C27_NoHandleNoChange ==
  [][\A p \in Names :
       ((Runs(Caller, "commit", p) \/ Runs(Caller, "rollback", p)) /\ ~HandleOpen(p)) =>
         /\ ~call'[Caller].res[p].Success
         /\ call'[Caller].res[p].Err = ErrNoActiveTx
         /\ partRecs' = partRecs
         /\ LocalTx' = LocalTx
         /\ resource' = resource]_vars

\* The status a participant's rows carry after op succeeded on the handle.
DoneStatus(op) == IF op = "commit" THEN ParticipantCommitted ELSE ParticipantRolledBack

\* The error of op's result when the handle's Commit() or Rollback() failed.
HandleError(op) == IF op = "commit" THEN ErrHandleCommit ELSE ErrHandleRollback

\* C28: Participant.Commit (Rollback) on an open handle: when the handle's
\* commit (rollback) fails the participant's record reads failed and the result
\* is a failure; when it succeeds and the record update succeeds the record
\* reads committed (rolledback), the handle is cleared and the result is a
\* success; the result is a success only when both succeeded.
C28_CommitOnOpenHandle ==
  [][\A p \in Names : \A op \in {"commit", "rollback"} :
       (Runs(Caller, op, p) /\ HandleOpen(p)) =>
         LET x == call[Caller].xid
             r == call'[Caller].res[p]
             handleFailed == LocalTx'[p].state = "broken"
         IN  /\ handleFailed =>
                  /\ ~r.Success
                  /\ r.Err = HandleError(op)
                  /\ RecordIs(partRecs', x, p, ParticipantFailed)
             /\ (~handleFailed /\ HasRecord(partRecs, x, p)) =>
                  /\ r = OperationResult(TRUE, "nil")
                  /\ RecordIs(partRecs', x, p, DoneStatus(op))
                  /\ LocalTx'[p] = NilTx
             /\ r.Success => ~handleFailed /\ HasRecord(partRecs, x, p)]_vars

\* A round of Prepare, Commit or Rollback is under way for c.
InRound(c) == call[c].op \in {"prepare", "commit", "rollback"}

\* The status a round of op writes when it is over.
ResultStatuses(op) ==
  IF op = "prepare" THEN {StatusPrepared, StatusFailed}
  ELSE IF op = "commit" THEN {StatusCommitted, StatusFailed}
  ELSE {StatusRolledBack}

\* C29: while a participant call of the round has not returned, the round
\* writes no transaction status and the call does not return; the step that
\* writes the round's resulting status and returns is taken only when every
\* participant call of the round has returned.
C29_FanInBarrier ==
  [][/\ (InRound(Caller) /\ ~AllDone(Caller)) =>
          /\ transactions' = transactions
          /\ ret' = ret
          /\ call'[Caller].op = call[Caller].op
          /\ call'[Caller].xid = call[Caller].xid
     /\ \A op \in {"prepare", "commit", "rollback"} :
          Returns(Caller, op) =>
            /\ \A p \in Round(Caller) : call[Caller].res[p] # NoResult
            /\ transactions'[call[Caller].xid].Status \in ResultStatuses(op)
            /\ ret'[Caller].op = op]_vars

\* Prepare has returned after a round of both participants of which one failed.
C29_Witness ==
  /\ Idle(Caller)
  /\ ret[Caller].op = "prepare"
  /\ prepared.xid = ret[Caller].xid
  /\ prepared.round = Names
  /\ prepared.ok = {"order_service"}
  /\ Status(prepared.xid) = StatusFailed

\* C30: a round starts one goroutine for every registered participant; each
\* goroutine runs once, stores a result for its participant and leaves the
\* other participants' calls and results alone, whatever its own outcome; the
\* call returns with a result collected for every registered participant.
C30_EveryParticipantOnce ==
  [][\A op \in {"prepare", "commit", "rollback"} :
       /\ Starts(Caller, op) =>
            \A p \in Names : call'[Caller].pc[p] = "go" <=> p \in Participants
       /\ \A p \in Names :
            Runs(Caller, op, p) =>
              /\ call'[Caller].res[p] # NoResult
              /\ \A q \in Names \ {p} :
                   /\ call'[Caller].pc[q] = call[Caller].pc[q]
                   /\ call'[Caller].res[q] = call[Caller].res[q]
       /\ (call[Caller].op = op /\ call'[Caller].op = op) =>
            \A p \in Names :
              call'[Caller].pc[p] # call[Caller].pc[p] => Runs(Caller, op, p)
       /\ Returns(Caller, op) =>
            /\ Round(Caller) = Participants
            /\ \A p \in Participants :
                 call[Caller].pc[p] = "done" /\ call[Caller].res[p] # NoResult]_vars

\* Every goroutine of a Commit round is done: the first participant's commit
\* failed and the second participant's commit succeeded.
C30_Witness ==
  /\ call[Caller].op = "commit"
  /\ Participants = Names
  /\ AllDone(Caller)
  /\ call[Caller].res["order_service"] = OperationResult(FALSE, ErrHandleCommit)
  /\ call[Caller].res["payment_service"] = OperationResult(TRUE, "nil")

\* ------------------------------------------------- phase-order properties

\* A Prepare round for x has goroutines that are not done.
PrepareRunning(x) ==
  \E c \in Callers : call[c].op = "prepare" /\ call[c].xid = x /\ ~AllDone(c)

\* C31: no participant Commit or Rollback call of a round for x runs while a
\* participant call of a Prepare round for x has not completed, also when the
\* Commit or Rollback is called while the Prepare is running.
C31_PhaseOrder ==
  [][\A c \in Callers : \A p \in Names : \A op \in {"commit", "rollback"} :
       Runs(c, op, p) => ~PrepareRunning(call[c].xid)]_vars

\* ------------------------------------------------ error-handling properties

\* The call of c to op with x returns in this step, whether after a round or
\* without one.
Answers(c, op, x) ==
  /\ ret'[c] # ret[c]
  /\ ret'[c].op = op
  /\ ret'[c].xid = x

\* C32: Prepare, Commit and Rollback called with an xid that has no
\* transaction record start no round, return an error, and leave the
\* transaction records, the participant records, the handles and the
\* resources as they were.
C32_UnknownXidRefused ==
  [][\A op \in {"prepare", "commit", "rollback"} :
       /\ Starts(Caller, op) => call'[Caller].xid \in DOMAIN transactions
       /\ \A x \in XIDs \ DOMAIN transactions :
            Answers(Caller, op, x) =>
              /\ Idle(Caller) /\ call' = call
              /\ ~ret'[Caller].ok
              /\ ret'[Caller].err # "nil"
              /\ transactions' = transactions
              /\ partRecs' = partRecs
              /\ LocalTx' = LocalTx
              /\ resource' = resource]_vars

\* Commit of a transaction that was never begun has been refused while a
\* participant is registered and another transaction exists.
C32_Witness ==
  /\ Idle(Caller)
  /\ Participants # {}
  /\ Len(transactions) = 1
  /\ ret[Caller] = Return("commit", 2, FALSE, ErrRecordNotFoundTx)

HandleFinalized(p) == LocalTx[p].state \in {"committed", "rolledback"}

\* C34: Participant.Commit and Participant.Rollback never call Commit() or
\* Rollback() on a handle that has already been committed or rolled back, the
\* handle Prepare rolled back after a failing action included.
C34_HandleFinalizedOnce ==
  [][\A p \in Names : \A op \in {"commit", "rollback"} :
       (Runs(Caller, op, p) /\ LocalTx[p] # NilTx) => ~HandleFinalized(p)]_vars

\* ------------------------------------------------- termination properties

\* C35: when every participant call and every store call returns, a Prepare,
\* Commit or Rollback that has started its round eventually returns, for any
\* number of registered participants, none included.
C35_RoundTerminates ==
  \A op \in {"prepare", "commit", "rollback"} :
    (call[Caller].op = op) ~> (Idle(Caller) /\ ret[Caller].op = op)

\* Rollback has returned after a round with no registered participant.
C35_Witness ==
  /\ Participants = {}
  /\ Idle(Caller)
  /\ ret[Caller].op = "rollback"
  /\ ret[Caller].ok
  /\ Status(ret[Caller].xid) = StatusRolledBack

\* C36: with two transactions on one coordinator, a participant's Commit or
\* Rollback for x finalizes only a handle that Prepare opened for x and writes
\* only the participant records of x, and no step replaces an open handle by
\* another one before it has been committed or rolled back.
C36_TransactionIsolation ==
  [][\A p \in Names :
       /\ \A op \in {"commit", "rollback"} :
            Runs(Caller, op, p) =>
              /\ HandleOpen(p) => LocalTx[p].xid = call[Caller].xid
              /\ \A x \in XIDs \ {call[Caller].xid} : \A q \in Names :
                   partRecs'[<<x, q>>] = partRecs[<<x, q>>]
       /\ (HandleOpen(p) /\ LocalTx'[p] # LocalTx[p]) =>
            \/ LocalTx'[p] = NilTx
            \/ LocalTx'[p].xid = LocalTx[p].xid]_vars

\* ------------------------------------------------- registry properties

\* C37: the participants a Commit or Rollback of x starts a call for are those
\* that took part in the Prepare round of x, whatever RegisterParticipant has
\* added since.
C37_RoundOfPrepare ==
  [][\A op \in {"commit", "rollback"} :
       (Starts(Caller, op) /\ prepared.xid = call'[Caller].xid) =>
         {p \in Names : call'[Caller].pc[p] # "none"} = prepared.round]_vars

\* ------------------------------------------- acknowledgement properties

\* C38: when MinSlaves acknowledgements of an entry were recorded after the
\* entry was appended and before the timer of the master's WaitForACK fired,
\* that WaitForACK does not time out, wherever the acknowledgements fall
\* relative to the registration of its channel.
C38_NoLostACK ==
  [][(mPc = "waiting" /\ wPc = "waiting" /\ wPc' = "idle" /\ mOp.timely >= MinSlaves)
       => ssRet'.status = StatusOK]_vars

\* ------------------------------------------------------------------ Slave

\* The syncLoop goroutines that have not returned.
Running == {l \in Loops : loopPc[l] # "none"}

\* The goroutine a go statement starts: the first one not in use.
NewLoop == CHOOSE l \in Loops \ Running : \A k \in Loops \ Running : l <= k

\* StartSync's test of s.isRunning, read without a lock: when the flag is set
\* the call logs and returns; otherwise it goes on to set it. The model takes
\* the call only while a goroutine is left to start.
StartCheck(c) ==
  /\ startPc[c] = "idle"
  /\ ~syncRunning
  /\ Cardinality(Running) + Cardinality({d \in Starters : startPc[d] = "checked"}) < MaxLoops
  /\ startPc' = [startPc EXCEPT ![c] = "checked"]
  /\ UNCHANGED <<syncRunning, loopPc, syncMutex, currentPosition, batch, applied, ackSent,
                 msVars, notSL>>

\* StartSync after the test: s.isRunning = true; go s.syncLoop(). The
\* registration with the master that follows changes nothing of the slave.
StartGo(c) ==
  /\ startPc[c] = "checked"
  /\ syncRunning' = TRUE
  /\ loopPc' = [loopPc EXCEPT ![NewLoop] = "check"]
  /\ startPc' = [startPc EXCEPT ![c] = "idle"]
  /\ UNCHANGED <<syncMutex, currentPosition, batch, applied, ackSent,
                 msVars, notSL>>

\* StopSync: under syncMutex, s.isRunning = false.
StopSync ==
  /\ syncMutex = 0
  /\ syncRunning
  /\ syncRunning' = FALSE
  /\ UNCHANGED <<loopPc, startPc, syncMutex, currentPosition, batch, applied, ackSent,
                 msVars, notSL>>

\* syncLoop at the top of its for: if !s.isRunning { return }.
LoopCheck(l) ==
  /\ loopPc[l] = "check"
  /\ loopPc' = [loopPc EXCEPT ![l] = IF syncRunning THEN "sync" ELSE "none"]
  /\ UNCHANGED <<syncRunning, startPc, syncMutex, currentPosition, batch, applied,
                 ackSent, msVars, notSL>>

\* syncOnce up to its loop over the entries: lock syncMutex and fetch the
\* entries above currentPosition from the master. A failed fetch or an empty
\* answer returns, and the loop goes on to wait for its ticker.
SyncFetch(l, fetchOK) ==
  /\ loopPc[l] = "sync"
  /\ syncMutex = 0
  /\ IF fetchOK /\ GetEntries(currentPosition) # <<>>
       THEN /\ batch' = GetEntries(currentPosition)
            /\ syncMutex' = l
            /\ loopPc' = [loopPc EXCEPT ![l] = "apply"]
       ELSE /\ loopPc' = [loopPc EXCEPT ![l] = "tick"]
            /\ UNCHANGED <<batch, syncMutex>>
  /\ UNCHANGED <<syncRunning, startPc, currentPosition, applied, ackSent,
                 msVars, notSL>>

\* One turn of syncOnce's loop: ApplyEntry on the next entry; on an error
\* syncOnce returns; otherwise the position moves to the entry's ID and the
\* acknowledgement is posted to the master (ackOK: the POST succeeded). After
\* the last entry syncOnce returns. A return unlocks syncMutex.
SyncApply(l, applyOK, ackOK) ==
  /\ loopPc[l] = "apply"
  /\ IF ~applyOK
       THEN /\ batch' = <<>>
            /\ syncMutex' = 0
            /\ loopPc' = [loopPc EXCEPT ![l] = "tick"]
            /\ UNCHANGED <<currentPosition, applied, ackSent>>
       ELSE /\ currentPosition' = Head(batch).ID
            /\ applied' = Append(applied, Head(batch).ID)
            /\ ackSent' = IF ackOK THEN ackSent \cup {Head(batch).ID} ELSE ackSent
            /\ batch' = Tail(batch)
            /\ IF Tail(batch) = <<>>
                 THEN /\ syncMutex' = 0
                      /\ loopPc' = [loopPc EXCEPT ![l] = "tick"]
                 ELSE UNCHANGED <<syncMutex, loopPc>>
  /\ UNCHANGED <<syncRunning, startPc, msVars, notSL>>

\* <-ticker.C: the next sync period begins.
LoopTick(l) ==
  /\ loopPc[l] = "tick"
  /\ loopPc' = [loopPc EXCEPT ![l] = "check"]
  /\ UNCHANGED <<syncRunning, startPc, syncMutex, currentPosition, batch, applied,
                 ackSent, msVars, notSL>>

\* The slave, and the master appending to its binlog meanwhile.
NextSlave ==
  \/ \E c \in Starters : StartCheck(c)
  \/ \E c \in Starters : StartGo(c)
  \/ StopSync
  \/ \E l \in Loops : LoopCheck(l)
  \/ \E l \in Loops : \E fetchOK \in BOOLEAN : SyncFetch(l, fetchOK)
  \/ \E l \in Loops : \E applyOK \in BOOLEAN : \E ackOK \in BOOLEAN :
       SyncApply(l, applyOK, ackOK)
  \/ \E l \in Loops : LoopTick(l)
  \/ \E operation \in Operations : AppendCall("a1", operation, 1)
  \/ AppendLocked("a1")

SpecSlave == Init /\ [][NextSlave]_vars

\* ------------------------------------------------------ Slave properties

\* The entries applied so far are those with the IDs 1, 2, ... in that order,
\* and currentPosition is the ID of the last of them.
AppliedInOrder ==
  /\ currentPosition = Len(applied)
  /\ \A i \in 1..Len(applied) : applied[i] = i

\* A syncOnce fetches in this step: it goes from its start to its loop.
Fetches(l) == loopPc[l] = "sync" /\ loopPc'[l] = "apply"

\* An ApplyEntry of syncOnce fails in this step.
ApplyFails(l) == loopPc[l] = "apply" /\ loopPc'[l] = "tick" /\ batch # <<>> /\ applied' = applied

\* C39: the slave applies the entries in increasing ID order without gap or
\* duplicate, currentPosition never decreases and is the ID of the last entry
\* applied, a fetch brings only entries above currentPosition, and a failing
\* apply leaves the position where it was and ends the batch.
C39_AppliesInOrder ==
  /\ []AppliedInOrder
  /\ [][/\ currentPosition' >= currentPosition
        /\ \A l \in Loops :
             /\ Fetches(l) =>
                  /\ batch' # <<>>
                  /\ \A i \in 1..Len(batch') : batch'[i].ID = currentPosition + i
             /\ ApplyFails(l) =>
                  /\ currentPosition' = currentPosition
                  /\ Len(batch') = 0
                  /\ ackSent' = ackSent]_vars

\* Three entries were applied while two sync loops were alive, and the
\* acknowledgement of the second did not reach the master.
C39_Witness ==
  /\ Len(entries) = MaxEntries
  /\ applied = <<1, 2, 3>>
  /\ currentPosition = 3
  /\ Cardinality(Running) = 2
  /\ ackSent = {1, 3}

\* C40: at most one sync loop is alive per Slave, for every sequence and
\* interleaving of StartSync and StopSync calls.
C40_OneSyncLoop == Cardinality(Running) <= 1

====
